---- MODULE Spec2Model ----
(***************************************************************************)
(* Model of claude-code-git-hook.                                          *)
(*                                                                         *)
(* Spec: the squash-wip command: the argument                              *)
(* handling of the cc-git-hook dispatcher and of the squash module's main, *)
(* the WIP scan, the message synthesis and performSimpleMerge, run against *)
(* a model of the git repository (history, index, working tree, stash).    *)
(*                                                                         *)
(* AutoSpec: the auto-commit hook: loadConfig, processHookInput and        *)
(* generateCommitMessage, run against the same model of the repository.    *)
(*                                                                         *)
(* A commit message is a sequence of characters (one-character strings);   *)
(* the literal "[AUTO-WIP]" and the word "squash-wip" are single elements. *)
(***************************************************************************)
EXTENDS Integers, Sequences, FiniteSets, TLC

VARIABLES
    isRepo,         \* the working directory is a git repository
    history,        \* the branch, newest commit first: [id, msg, tree]
    index,          \* content of the staging area
    work,           \* content of the tracked files of the working tree
    untracked,      \* an untracked file exists
    stash,          \* the stash list, newest entry first
    argv,           \* the user's arguments after the command name
    via,            \* "dispatcher" (cc-git-hook squash-wip) or "direct" (node splash.js)
    cfg,            \* the loaded configuration
    fault,          \* the git command the environment makes fail, or "none"
    pre,            \* the repository as it was when the command started
    run,            \* 1 for the first run of the command, 2 for the next, ...
    projectFile,    \* ./.claude-git-hook.json
    userFile,       \* ~/.claude-git-hook.json
    envv,           \* the CLAUDE_GIT_HOOK_* variable that is set, or "none"
    appConfig,      \* what loadConfig returned
    tty,            \* stdin and stdout are terminals
    stdin,          \* what the hook writes to the standard input
    hookInput,      \* the object processHookInput is called with
    late,           \* query calls whose attempt timed out: [open, dropped]
    probe,          \* the inspector function called and what git answers
    answer,         \* what the inspector function returned, or that it threw
    hook,           \* the hook's stdin stream and timer, the calls of processHookInput
    pc,            \* position of the process
    passed,         \* the argument main(customMessage) is called with
    customMessage,  \* main's customMessage after line 527
    wipCommits,     \* the scan's result, newest first
    commitMessage,  \* the message handed to performSimpleMerge
    msgSource,      \* "override", "single", "collaborator", "fallback", "default"
    attempt,        \* generateMergedCommitMessage's loop counter
    calls,          \* number of query(prompt) calls made
    backoffs,       \* the waits made between attempts, in seconds
    hasChanges,     \* performSimpleMerge's hasChanges
    success,        \* performSimpleMerge's return value
    cmds,           \* the mutating git commands run: [cmd, ok]
    out,            \* what was printed
    exitCode        \* the process's exit code, -1 while it runs

repoVars == <<isRepo, history, index, work, untracked, stash>>
autoVars == <<projectFile, userFile, envv, appConfig, tty, stdin, hookInput,
              probe, answer, hook>>
envVars == <<argv, via, cfg, fault, pre, run, autoVars, late>>
synthVars == <<commitMessage, msgSource, attempt, calls, backoffs>>
mergeVars == <<hasChanges, success, cmds>>
vars == <<repoVars, envVars, pc, passed, customMessage, wipCommits, synthVars,
          mergeVars, out, exitCode>>

(***************************************************************************)
(* Bounds of the model.                                                    *)
(***************************************************************************)
MaxHist == 3
\* The command is run at most this many times in a row.
MaxRuns == 2

(***************************************************************************)
(* Program constants.                                                      *)
(***************************************************************************)
FindWindow == 50
ScanWindow == 100
maxRetries == 3
TitleMax == 50

Marker == "[AUTO-WIP]"
CommandWord == "squash-wip"

(***************************************************************************)
(* Text.                                                                   *)
(***************************************************************************)
IsSpace(c) == c \in {" ", "\n"}

RECURSIVE TrimStart(_)
TrimStart(m) ==
    IF m # <<>> /\ IsSpace(Head(m)) THEN TrimStart(Tail(m)) ELSE m

RECURSIVE TrimEnd(_)
TrimEnd(m) ==
    IF m # <<>> /\ IsSpace(m[Len(m)]) THEN TrimEnd(SubSeq(m, 1, Len(m) - 1)) ELSE m

Trim(m) == TrimEnd(TrimStart(m))

RECURSIVE Join(_)
Join(args) ==
    IF args = <<>> THEN <<>>
    ELSE IF Len(args) = 1 THEN args[1]
    ELSE args[1] \o <<" ">> \o Join(Tail(args))

StartsWithMarker(m) == m # <<>> /\ Head(m) = Marker

StripMarker(m) == IF StartsWithMarker(m) THEN TrimStart(Tail(m)) ELSE m

(***************************************************************************)
(* The command line of `git commit -m "..."` as /bin/sh reads it.          *)
(* execGitCommand hands execSync one string; performSimpleMerge builds it  *)
(* by escaping the double quotes of the message only.                      *)
(***************************************************************************)
RECURSIVE EscapeQuotes(_)
EscapeQuotes(m) ==
    IF m = <<>> THEN <<>>
    ELSE IF Head(m) = "\"" THEN <<"\\", "\"">> \o EscapeQuotes(Tail(m))
    ELSE <<Head(m)>> \o EscapeQuotes(Tail(m))

IsNameChar(c) == c \in {"a", "b", "s"}

RECURSIVE SkipName(_)
SkipName(s) == IF s # <<>> /\ IsNameChar(Head(s)) THEN SkipName(Tail(s)) ELSE s

\* The value sh substitutes for $name: the variable is not set.
EnvValue == <<>>

\* sh's word splitting and quote removal of the text that follows an opening
\* double quote. ok is FALSE when a quote is left open (a syntax error).
RECURSIVE ShParse(_, _, _, _, _)
ShParse(s, mode, acc, inWord, words) ==
    IF s = <<>> THEN
        IF mode = "dq" THEN [ok |-> FALSE, words |-> <<>>]
        ELSE [ok |-> TRUE, words |-> IF inWord THEN Append(words, acc) ELSE words]
    ELSE
        LET c == Head(s)
            r == Tail(s)
        IN  IF c = "$" /\ r # <<>> /\ IsNameChar(Head(r)) THEN
                ShParse(SkipName(r), mode, acc \o EnvValue, TRUE, words)
            ELSE IF mode = "dq" THEN
                IF c = "\"" THEN ShParse(r, "unq", acc, TRUE, words)
                ELSE IF c = "\\" /\ r # <<>> /\ Head(r) \in {"$", "\"", "\\"} THEN
                    ShParse(Tail(r), "dq", Append(acc, Head(r)), TRUE, words)
                ELSE ShParse(r, "dq", Append(acc, c), TRUE, words)
            ELSE
                IF c = "\"" THEN ShParse(r, "dq", acc, TRUE, words)
                ELSE IF c = "\\" /\ r # <<>> THEN
                    ShParse(Tail(r), "unq", Append(acc, Head(r)), TRUE, words)
                ELSE IF IsSpace(c) THEN
                    ShParse(r, "unq", <<>>, FALSE,
                            IF inWord THEN Append(words, acc) ELSE words)
                ELSE ShParse(r, "unq", Append(acc, c), TRUE, words)

\* The words sh passes to git after `commit -m` for message m.
CommitArgs(m) == ShParse(EscapeQuotes(m) \o <<"\"">>, "dq", <<>>, TRUE, <<>>)

\* git's clean-up of a message given with -m: trailing white space goes.
GitCleanup(m) == TrimEnd(m)

\* What `git commit -m "<m>"` records as the message; ok is FALSE when sh
\* rejects the line, git gets further arguments (path specs that match no
\* file) or the message is empty.
CommittedMessage(m) ==
    LET a == CommitArgs(m)
    IN  IF ~a.ok \/ Len(a.words) # 1 THEN [ok |-> FALSE, msg |-> <<>>]
        ELSE LET g == GitCleanup(a.words[1])
             IN  [ok |-> g # <<>>, msg |-> g]

(***************************************************************************)
(* The repository.  A content is a committed tree (t) plus the set of      *)
(* uncommitted changes (ch) applied to it.                                 *)
(***************************************************************************)
EmptyTree == [t |-> 0, ch |-> {}]

HeadTree(h) == IF h = <<>> THEN EmptyTree ELSE h[1].tree

\* A staged change that adds a new file stays staged through stash pop.
IsAddition(c) == c = "addN"

WithChanges(tree, changes) == [t |-> tree.t, ch |-> tree.ch \cup changes]

\* `git status --porcelain` prints at least one line.
StatusNonEmpty(h, idx, wk, untr) == idx # HeadTree(h) \/ wk # idx \/ untr

\* A faulty variant of the stash: it never saves anything, so staged changes
\* stay in the index.
StashSavesNothing(h, idx, wk) == FALSE

\* `git stash push` without -u saves tracked changes only; with none to save
\* it prints "No local changes to save", exits 0 and creates no entry.
StashSaves(h, idx, wk) == idx # HeadTree(h) \/ wk # idx

\* `git stash pop` (no --index) on top entry e: the changes come back in the
\* working tree, of the staged ones only additions are staged again.
PoppedWork(h, wk, e) == WithChanges(wk, e.work.ch \ e.base.ch)

PoppedIndex(h, idx, e) ==
    WithChanges(idx, {c \in e.index.ch \ e.base.ch : IsAddition(c)})

(***************************************************************************)
(* Histories the model starts from.  kinds lists the commits newest first. *)
(***************************************************************************)
DefaultWipMsg == <<Marker, " ", "a">>
OlderWipMsg == <<Marker, " ", "b">>
RealMsg == <<"r">>

WipMsgs == {DefaultWipMsg, <<Marker, " ", "a", "$", "b">>, <<Marker>>}

MakeHistory(kinds, wm) ==
    [i \in 1..Len(kinds) |->
        [id |-> Len(kinds) - i + 1,
         msg |-> IF kinds[i] = "real" THEN RealMsg
                 ELSE IF i = 1 THEN wm ELSE OlderWipMsg,
         tree |-> [t |-> Len(kinds) - i + 1, ch |-> {}]]]

ShortKinds == UNION {[1..n -> {"wip", "real"}] : n \in 0..MaxHist}

\* FindWindow WIP commits above a real commit that has a WIP commit below it,
\* and a WIP run longer than the scan window.
LongKinds ==
    { [i \in 1..(FindWindow + 3) |->
          IF i <= FindWindow \/ i = FindWindow + 2 THEN "wip" ELSE "real"],
      [i \in 1..(FindWindow + 2) |->
          IF i <= FindWindow + 1 THEN "wip" ELSE "real"],
      [i \in 1..(ScanWindow + 2) |->
          IF i <= ScanWindow + 1 THEN "wip" ELSE "real"] }

WorkStates ==
    { [index |-> {}, work |-> {}, untracked |-> FALSE],
      [index |-> {}, work |-> {}, untracked |-> TRUE],
      [index |-> {"modF"}, work |-> {"modF"}, untracked |-> FALSE],
      [index |-> {"addN"}, work |-> {"addN"}, untracked |-> FALSE],
      [index |-> {}, work |-> {"modG"}, untracked |-> FALSE],
      [index |-> {"modF"}, work |-> {"modF", "modG"}, untracked |-> TRUE] }

CleanWork == [index |-> {}, work |-> {}, untracked |-> FALSE]

\* An entry the user stashed earlier, on an older tree.
UserStashEntry ==
    [base |-> EmptyTree, index |-> EmptyTree,
     work |-> WithChanges(EmptyTree, {"old"}), label |-> "user"]

Stashes == {<<>>, <<UserStashEntry>>}

Argvs ==
    { <<>>,
      << <<"a">> >>,
      << <<"a">>, <<"b">> >>,
      << <<"a", "\"", "b">> >>,
      << <<"a", "$", "b">> >>,
      << <<"a", "\\", "\"">> >>,
      << <<Marker, " ", "a">> >> }

Vias == {"dispatcher", "direct"}

(***************************************************************************)
(* Configuration and logging.                                              *)
(***************************************************************************)
defaultConfig ==
    [autoGenerateMessage |-> TRUE, showPreview |-> TRUE,
     logEnabled |-> TRUE, logLevel |-> "error"]

Cfgs ==
    { defaultConfig,
      [defaultConfig EXCEPT !.autoGenerateMessage = FALSE, !.showPreview = FALSE],
      [defaultConfig EXCEPT !.logLevel = "warn"] }

LOG_LEVELS == [error |-> 0, warn |-> 1, info |-> 2, debug |-> 3]

shouldLog(c, level) == c.logEnabled /\ LOG_LEVELS[level] <= LOG_LEVELS[c.logLevel]

\* logger.warn / logger.error print only when the level passes.
Logged(c, level, event) == IF shouldLog(c, level) THEN {event} ELSE {}

Faults == {"none", "stash", "reset", "commit", "pop"}

\* One thing is varied at a time: a configuration other than the default, or
\* a failing git command.
EnvChoices ==
    {[fault |-> "none", cfg |-> c] : c \in Cfgs}
    \cup {[fault |-> f, cfg |-> defaultConfig] : f \in Faults \ {"none"}}

(***************************************************************************)
(* Configuration files and loadConfig.  A section lists in has the         *)
(* settings it defines; a setting it does not define reads as undefined,   *)
(* which every use in the code treats as FALSE, '' or 0.  foreign holds    *)
(* the settings whose stored JSON value is not of the setting's own type.  *)
(***************************************************************************)
DefaultMaxLength == 100

\* defaultConfig.autoCommit and defaultConfig.git
DefaultSections ==
    [autoCommit |-> [has |-> {"enabled", "prefix", "maxMessageLength"},
                     enabled |-> TRUE, prefix |-> <<Marker>>,
                     maxMessageLength |-> DefaultMaxLength, foreign |-> {}],
     git |-> [has |-> {"autoStage", "safeMode"},
              autoStage |-> TRUE, safeMode |-> TRUE, foreign |-> {}]]

NoAutoCommit ==
    [has |-> {}, enabled |-> FALSE, prefix |-> <<>>, maxMessageLength |-> 0,
     foreign |-> {}]
NoGit == [has |-> {}, autoStage |-> FALSE, safeMode |-> FALSE, foreign |-> {}]

AbsentFile ==
    [state |-> "absent", has |-> {}, autoCommit |-> NoAutoCommit, git |-> NoGit]
InvalidFile ==
    [state |-> "invalid", has |-> {}, autoCommit |-> NoAutoCommit, git |-> NoGit]
AutoCommitFile(sec) ==
    [state |-> "ok", has |-> {"autoCommit"}, autoCommit |-> sec, git |-> NoGit]
GitFile(sec) ==
    [state |-> "ok", has |-> {"git"}, autoCommit |-> NoAutoCommit, git |-> sec]

CustomPrefix == <<"[", "P", "]">>
EnvPrefix == <<"[", "E", "]">>

\* The contents a .claude-git-hook.json may have.
ConfigFiles ==
    { AbsentFile,
      InvalidFile,
      AutoCommitFile([NoAutoCommit EXCEPT !.has = {"enabled"}]),
      AutoCommitFile([has |-> {"enabled", "prefix", "maxMessageLength"},
                      enabled |-> TRUE, prefix |-> CustomPrefix,
                      maxMessageLength |-> 16, foreign |-> {}]),
      AutoCommitFile([has |-> {"enabled", "maxMessageLength"},
                      enabled |-> TRUE, prefix |-> <<>>,
                      maxMessageLength |-> 8, foreign |-> {}]),
      GitFile([has |-> {"autoStage", "safeMode"},
               autoStage |-> TRUE, safeMode |-> FALSE, foreign |-> {}]),
      GitFile([has |-> {"autoStage", "safeMode"},
               autoStage |-> FALSE, safeMode |-> TRUE, foreign |-> {}]),
      GitFile([NoGit EXCEPT !.has = {"autoStage"}, !.autoStage = TRUE]) }

EnvSettings == {"none", "autoCommitFalse", "prefix"}

\* config = { ...config, ...fileConfig }: a section of the file replaces the
\* section of the same name as a whole.
MergeFile(config, file) ==
    IF file.state # "ok" THEN config
    ELSE [autoCommit |-> IF "autoCommit" \in file.has THEN file.autoCommit
                         ELSE config.autoCommit,
          git |-> IF "git" \in file.has THEN file.git ELSE config.git]

\* The loop over configPaths = [project, user], then the environment.
loadConfig(project, user, env) ==
    LET merged == MergeFile(MergeFile(DefaultSections, project), user)
    IN  IF env = "autoCommitFalse"
        THEN [merged EXCEPT !.autoCommit.enabled = FALSE,
                            !.autoCommit.has = @ \cup {"enabled"}]
        ELSE IF env = "prefix"
        THEN [merged EXCEPT !.autoCommit.prefix = EnvPrefix,
                            !.autoCommit.has = @ \cup {"prefix"}]
        ELSE merged

\* The hook's standard input: a JSON object with or without a prompt, text
\* that is not JSON, or nothing.
LongPromptLen == 51
ShortPrompt == <<"f", "i", "x">>
LongPrompt == [i \in 1..LongPromptLen |-> "p"]
NoInput == [valid |-> TRUE, prompt |-> <<>>]
Stdins ==
    { NoInput,
      [valid |-> FALSE, prompt |-> <<>>],
      [valid |-> TRUE, prompt |-> ShortPrompt],
      [valid |-> TRUE, prompt |-> LongPrompt] }

\* No inspector function is called on its own.
NoProbe == [fn |-> "none"]
NoAnswer == [threw |-> FALSE, fn |-> "none", value |-> <<>>]

\* main has registered nothing: no stdin handler, no timer, and
\* processHookInput has not been called.
NoHook == [started |-> 0, data |-> FALSE, stream |-> "open", timer |-> "none"]

\* The auto-commit hook's variables while the squash command runs.
AutoIdle ==
    /\ projectFile = AbsentFile
    /\ userFile = AbsentFile
    /\ envv = "none"
    /\ appConfig = DefaultSections
    /\ tty = TRUE
    /\ stdin = NoInput
    /\ hookInput = NoInput
    /\ probe = NoProbe
    /\ answer = NoAnswer
    /\ hook = NoHook

Undefined == [defined |-> FALSE, val |-> <<>>]
Defined(m) == [defined |-> TRUE, val |-> m]

Snapshot(repo, h, idx, wk, untr, st) ==
    [isRepo |-> repo, history |-> h, index |-> idx, work |-> wk,
     untracked |-> untr, stash |-> st]

\* No query call is outstanding, none has answered late.
NoLate == [open |-> {}, dropped |-> {}]

InitProcess ==
    /\ run = 1
    /\ late = NoLate
    /\ pc = "start"
    /\ passed = Undefined
    /\ customMessage = <<>>
    /\ wipCommits = <<>>
    /\ commitMessage = <<>>
    /\ msgSource = "none"
    /\ attempt = 0
    /\ calls = 0
    /\ backoffs = <<>>
    /\ hasChanges = FALSE
    /\ success = FALSE
    /\ cmds = <<>>
    /\ out = {}
    /\ exitCode = -1

InitRepo(h, ws, st) ==
    /\ isRepo = TRUE
    /\ history = h
    /\ index = WithChanges(HeadTree(h), ws.index)
    /\ work = WithChanges(HeadTree(h), ws.work)
    /\ untracked = ws.untracked
    /\ stash = st
    /\ pre = Snapshot(TRUE, h, WithChanges(HeadTree(h), ws.index),
                      WithChanges(HeadTree(h), ws.work), ws.untracked, st)

\* Short histories, with every working tree, stash, argument and environment.
InitShort ==
    \E kinds \in ShortKinds, wm \in WipMsgs, ws \in WorkStates, st \in Stashes,
       env \in EnvChoices :
        /\ kinds = <<>> => (ws = CleanWork /\ st = <<>>)
        /\ (kinds = <<>> \/ kinds[1] = "real") => wm = DefaultWipMsg
        /\ InitRepo(MakeHistory(kinds, wm), ws, st)
        /\ argv \in Argvs
        /\ via \in Vias
        /\ cfg = env.cfg
        /\ fault = env.fault

\* Histories that reach the scan windows, with a clean working tree and a
\* message given on the command line.
InitLong ==
    \E kinds \in LongKinds :
        /\ InitRepo(MakeHistory(kinds, DefaultWipMsg), CleanWork, <<>>)
        /\ argv = << <<"a">> >>
        /\ via = "direct"
        /\ cfg = defaultConfig
        /\ fault = "none"

\* A directory that is not a repository.
InitNoRepo ==
    /\ isRepo = FALSE
    /\ history = <<>>
    /\ index = EmptyTree
    /\ work = EmptyTree
    /\ untracked \in BOOLEAN
    /\ stash = <<>>
    /\ pre = Snapshot(FALSE, <<>>, EmptyTree, EmptyTree, untracked, <<>>)
    /\ argv \in {<<>>, << <<"a">> >>}
    /\ via \in Vias
    /\ cfg = defaultConfig
    /\ fault = "none"

Init == InitProcess /\ AutoIdle /\ (InitShort \/ InitLong \/ InitNoRepo)

(***************************************************************************)
(* git-utils: history reads.                                               *)
(***************************************************************************)
Take(q, n) == SubSeq(q, 1, IF Len(q) < n THEN Len(q) ELSE n)

\* `git log --format="%H|%s|%ai" -n count`, each message trimmed.
getRecentCommits(h, count) ==
    LET c == Take(h, count)
    IN  [i \in 1..Len(c) |-> [id |-> c[i].id, msg |-> Trim(c[i].msg)]]

NoCommit == [found |-> FALSE, id |-> 0]

Min(S) == CHOOSE x \in S : \A y \in S : x <= y

\* The first commit of the list whose message does not start with the marker.
FirstNonWip(commits) ==
    LET nonWip == {i \in 1..Len(commits) : ~StartsWithMarker(commits[i].msg)}
    IN  IF nonWip = {} THEN NoCommit
        ELSE [found |-> TRUE, id |-> commits[Min(nonWip)].id]

findLastNonWipCommit(h) == FirstNonWip(getRecentCommits(h, FindWindow))

\* A faulty variant of the loop: it does not stop at the base commit.
CollectWipNoBreak(commits, base) ==
    SelectSeq(commits, LAMBDA c : StartsWithMarker(c.msg))

\* main's loop over allCommits: stop at the base commit, keep the WIP ones.
CollectWip(commits, base) ==
    LET atBase == {i \in 1..Len(commits) : base.found /\ commits[i].id = base.id}
        before == IF atBase = {} THEN commits
                  ELSE SubSeq(commits, 1, Min(atBase) - 1)
    IN  SelectSeq(before, LAMBDA c : StartsWithMarker(c.msg))

ScanWip(h) == CollectWip(getRecentCommits(h, ScanWindow), findLastNonWipCommit(h))

\* showPreview: the list of commits is printed when there is one.
showPreview(wip) == IF wip = <<>> THEN {"noWipFound"} ELSE {"preview"}

(***************************************************************************)
(* Invocation: the dispatcher, or the squash module run directly.          *)
(***************************************************************************)
\* cc-git-hook main, command squash-wip: commandArgs.join(' ').trim() || undefined
ccGitHookMain ==
    /\ pc = "start"
    /\ via = "dispatcher"
    /\ passed' = (IF Trim(Join(argv)) = <<>> THEN Undefined
                  ELSE Defined(Trim(Join(argv))))
    /\ pc' = "main"
    /\ UNCHANGED <<repoVars, envVars, customMessage, wipCommits, synthVars,
                   mergeVars, out, exitCode>>

\* require.main === module: main() is called with no argument.
runDirect ==
    /\ pc = "start"
    /\ via = "direct"
    /\ passed' = Undefined
    /\ pc' = "main"
    /\ UNCHANGED <<repoVars, envVars, customMessage, wipCommits, synthVars,
                   mergeVars, out, exitCode>>

\* process.argv.slice(2): under the dispatcher the command name comes first.
ProcessArgv == IF via = "dispatcher" THEN <<<<CommandWord>>>> \o argv ELSE argv

\* main, lines 523-546: the argument, then the repository check.
mainStart ==
    /\ pc = "main"
    /\ customMessage' = (IF passed.defined THEN passed.val
                         ELSE Trim(Join(ProcessArgv)))
    /\ pc' = IF isRepo THEN "scan" ELSE "ask"
    /\ UNCHANGED <<repoVars, envVars, passed, wipCommits, synthVars,
                   mergeVars, out, exitCode>>

\* The user declines: "not initialised", exit 1.
askRefused ==
    /\ pc = "ask"
    /\ out' = out \cup {"notInitialised"}
    /\ exitCode' = 1
    /\ pc' = "done"
    /\ UNCHANGED <<repoVars, envVars, passed, customMessage, wipCommits,
                   synthVars, mergeVars>>

\* The user accepts and gitUtils.initGitRepository() reports ok or not.
askAccepted ==
    /\ pc = "ask"
    /\ \E ok \in BOOLEAN :
        IF ok THEN /\ isRepo' = TRUE
                   /\ out' = out \cup {"initialised"}
                   /\ pc' = "scan"
                   /\ UNCHANGED exitCode
        ELSE /\ out' = out \cup {"initFailed"}
             /\ exitCode' = 1
             /\ pc' = "done"
             /\ UNCHANGED isRepo
    /\ UNCHANGED <<history, index, work, untracked, stash, envVars, passed,
                   customMessage, wipCommits, synthVars, mergeVars>>

\* main, lines 548-582: the scan, the preview, and the exit when nothing is found.
scan ==
    /\ pc = "scan"
    /\ wipCommits' = ScanWip(history)
    /\ out' = out \cup showPreview(ScanWip(history))
             \cup (IF ScanWip(history) = <<>> THEN {"nothingToMerge"} ELSE {})
    /\ IF ScanWip(history) = <<>>
       THEN exitCode' = 0 /\ pc' = "done"
       ELSE UNCHANGED exitCode /\ pc' = "message"
    /\ UNCHANGED <<repoVars, envVars, passed, customMessage, synthVars, mergeVars>>

(***************************************************************************)
(* generateMergedCommitMessage.                                            *)
(***************************************************************************)
MergedDefault == <<"<merge WIP commits>">>
MultiTitle == <<"<several changes>">>
DetailsHeader == <<"<includes:>">>

\* What the collaborator may answer.
Replies == {<<"s">>, <<" ">>, <<"[auto-wip]", " ", "s">>}

\* /^\[AUTO-WIP\]\s*/i
StripMarkerAnyCase(m) ==
    IF m # <<>> /\ Head(m) \in {Marker, "[auto-wip]"} THEN TrimStart(Tail(m)) ELSE m

RECURSIVE SplitLines(_, _)
SplitLines(m, cur) ==
    IF m = <<>> THEN <<cur>>
    ELSE IF Head(m) = "\n" THEN <<cur>> \o SplitLines(Tail(m), <<>>)
    ELSE SplitLines(Tail(m), Append(cur, Head(m)))

RECURSIVE JoinLines(_)
JoinLines(ls) ==
    IF ls = <<>> THEN <<>>
    ELSE IF Len(ls) = 1 THEN ls[1]
    ELSE ls[1] \o <<"\n">> \o JoinLines(Tail(ls))

IsBlank(l) == \A i \in 1..Len(l) : IsSpace(l[i]) \/ l[i] = "\n"

\* result.trim(), the prefix removed, the empty lines removed.
CleanReply(r) ==
    JoinLines(SelectSeq(SplitLines(StripMarkerAnyCase(Trim(r)), <<>>),
                        LAMBDA l : ~IsBlank(l)))

\* msg.replace(/\s*\([^)]+\)$/, ''): a closing parenthesis at the end, with the
\* leftmost opening one after any earlier closing one.
StripTrailingParen(m) ==
    IF m = <<>> \/ m[Len(m)] # ")" THEN m
    ELSE LET n == Len(m)
             closers == {j \in 1..(n - 1) : m[j] = ")"}
             from == IF closers = {} THEN 1
                     ELSE (CHOOSE j \in closers : \A k \in closers : k <= j) + 1
             openers == {k \in from..(n - 2) : m[k] = "("}
         IN  IF openers = {} THEN m
             ELSE TrimEnd(SubSeq(m, 1,
                     (CHOOSE k \in openers : \A l \in openers : k <= l) - 1))

Description(c) == Trim(StripTrailingParen(StripMarker(c.msg)))

\* descriptions.map(desc => `- ${desc}`).join('\n'), for ds[lo..hi].
RECURSIVE Bullets(_, _, _)
Bullets(ds, lo, hi) ==
    IF lo > hi THEN <<>>
    ELSE IF lo = hi THEN <<"-", " ">> \o ds[lo]
    ELSE LET mid == (lo + hi) \div 2
         IN  Bullets(ds, lo, mid) \o <<"\n">> \o Bullets(ds, mid + 1, hi)

\* The catch block of the last attempt, lines 335-356.
Fallback(wip) ==
    LET descriptions ==
            SelectSeq([i \in 1..Len(wip) |-> Description(wip[i])],
                      LAMBDA d : d # <<>>)
        first == IF descriptions = <<>> THEN MultiTitle ELSE descriptions[1]
        mainTitle == IF Len(first) > TitleMax
                     THEN SubSeq(first, 1, TitleMax) \o <<".", ".", ".">>
                     ELSE first
        details == Bullets(descriptions, 2, Len(descriptions))
    IN  IF details # <<>>
        THEN mainTitle \o <<"\n", "\n">> \o DetailsHeader \o <<"\n">> \o details
        ELSE mainTitle

\* main, lines 584-591, and generateMergedCommitMessage up to its loop.
chooseMessage ==
    /\ pc = "message"
    /\ IF customMessage # <<>>
       THEN /\ commitMessage' = customMessage
            /\ msgSource' = "override"
            /\ pc' = "merge"
            /\ UNCHANGED attempt
       ELSE IF Len(wipCommits) = 1
       THEN /\ commitMessage' = StripMarker(wipCommits[1].msg)
            /\ msgSource' = "single"
            /\ pc' = "merge"
            /\ UNCHANGED attempt
       ELSE /\ attempt' = 1
            /\ pc' = "query"
            /\ UNCHANGED <<commitMessage, msgSource>>
    /\ UNCHANGED <<repoVars, envVars, passed, customMessage, wipCommits, calls,
                   backoffs, mergeVars, out, exitCode>>

\* An attempt whose query(prompt) resolves before the timeout, lines 311-329.
queryReplied ==
    /\ pc = "query"
    /\ \E r \in Replies :
        /\ calls' = calls + 1
        /\ IF CleanReply(r) # <<>>
           THEN /\ commitMessage' = CleanReply(r)
                /\ msgSource' = "collaborator"
                /\ pc' = "merge"
                /\ UNCHANGED attempt
           ELSE IF attempt = maxRetries
           THEN /\ commitMessage' = MergedDefault
                /\ msgSource' = "default"
                /\ pc' = "merge"
                /\ UNCHANGED attempt
           ELSE /\ attempt' = attempt + 1
                /\ UNCHANGED <<commitMessage, msgSource, pc>>
    /\ UNCHANGED <<repoVars, envVars, passed, customMessage, wipCommits,
                   backoffs, mergeVars, out, exitCode>>

\* An attempt that throws: the call rejects or the 30 s timer wins, lines 330-361.
\* When the timer wins the call is still running: nothing cancels it.
queryFailed ==
    /\ pc = "query"
    /\ \E kind \in {"error", "timeout"} :
        /\ calls' = calls + 1
        /\ late' = (IF kind = "timeout"
                    THEN [late EXCEPT !.open = @ \cup {attempt}] ELSE late)
        /\ IF attempt = maxRetries
           THEN /\ commitMessage' = Fallback(wipCommits)
                /\ msgSource' = "fallback"
                /\ out' = out \cup Logged(cfg, "warn", "warnFallback")
                /\ pc' = "merge"
                /\ UNCHANGED <<attempt, backoffs>>
           ELSE /\ backoffs' = Append(backoffs, attempt)
                /\ attempt' = attempt + 1
                /\ UNCHANGED <<commitMessage, msgSource, out, pc>>
    /\ UNCHANGED <<repoVars, argv, via, cfg, fault, pre, run, autoVars, passed,
                   customMessage, wipCommits, mergeVars, exitCode>>

\* A faulty variant of the race: the answer settles it whenever it comes.
RaceNeverSettled(k) == TRUE

\* Promise.race([query(prompt), timer]) of attempt k can still be settled by
\* query's answer: the attempt is the one awaited and its timer has not won.
RaceOpen(k) == pc = "query" /\ attempt = k /\ k \notin late.open

\* The answer of a call whose attempt timed out arrives, lines 311-329: the
\* race was settled by the timer, so the answer is dropped; were the race
\* open the lines after the await would run with it.
lateReply ==
    /\ pc \in {"query", "merge", "reset", "commit", "pop", "finish"}
    /\ \E k \in late.open, r \in Replies :
        /\ late' = [open |-> late.open \ {k}, dropped |-> late.dropped \cup {k}]
        /\ IF RaceOpen(k) /\ CleanReply(r) # <<>>
           THEN /\ commitMessage' = CleanReply(r)
                /\ msgSource' = "collaborator"
                /\ pc' = IF pc = "query" THEN "merge" ELSE pc
           ELSE UNCHANGED <<commitMessage, msgSource, pc>>
    /\ UNCHANGED <<repoVars, argv, via, cfg, fault, pre, run, autoVars, passed,
                   customMessage, wipCommits, attempt, calls, backoffs,
                   mergeVars, out, exitCode>>

(***************************************************************************)
(* performSimpleMerge, one action per git command it runs.                 *)
(***************************************************************************)
\* getGitStatus().hasChanges
getGitStatus(h, idx, wk, untr) == isRepo /\ StatusNonEmpty(h, idx, wk, untr)

StashLabel == "claude-code-splash-temp"

Ran(c, ok) == Append(cmds, [cmd |-> c, ok |-> ok])

\* A faulty variant of the catch block: after a failed reset the commit is
\* still run.
MergeFailedGoesOn(c) ==
    /\ cmds' = Ran(c, FALSE)
    /\ success' = FALSE
    /\ out' = out \cup Logged(cfg, "error", "errorMerge")
    /\ pc' = IF c = "reset" THEN "commit" ELSE "finish"

\* The catch block, lines 513-516: the error is logged, false is returned.
MergeFailed(c) ==
    /\ cmds' = Ran(c, FALSE)
    /\ success' = FALSE
    /\ out' = out \cup Logged(cfg, "error", "errorMerge")
    /\ pc' = "finish"

\* Position in the branch of the commit with this id.
PositionOf(h, id) == CHOOSE i \in 1..Len(h) : h[i].id = id

\* The id a commit made by this run gets.
NewId == IF pre.history = <<>> THEN 1 ELSE pre.history[1].id + 1

\* Lines 484-491: hasChanges, and the stash push when it is set.
mergeStash ==
    /\ pc = "merge"
    /\ hasChanges' = getGitStatus(history, index, work, untracked)
    /\ IF ~getGitStatus(history, index, work, untracked)
       THEN /\ pc' = "reset"
            /\ UNCHANGED <<index, work, stash, cmds, success, out>>
       ELSE IF fault = "stash"
       THEN /\ MergeFailed("stash push")
            /\ UNCHANGED <<index, work, stash>>
       ELSE /\ cmds' = Ran("stash push", TRUE)
            /\ pc' = "reset"
            /\ IF StashSaves(history, index, work)
               THEN /\ stash' = <<[base |-> HeadTree(history), index |-> index,
                                   work |-> work, label |-> StashLabel]>> \o stash
                    /\ index' = HeadTree(history)
                    /\ work' = HeadTree(history)
               ELSE UNCHANGED <<index, work, stash>>
            /\ UNCHANGED <<success, out>>
    /\ UNCHANGED <<isRepo, history, untracked, envVars, passed, customMessage,
                   wipCommits, synthVars, exitCode>>

\* Lines 494-495: reset --soft <oldest WIP commit>^; the root has no parent.
mergeReset ==
    /\ pc = "reset"
    /\ LET oldest == wipCommits[Len(wipCommits)].id
           p == PositionOf(history, oldest)
       IN  IF fault = "reset" \/ p = Len(history)
           THEN /\ MergeFailed("reset")
                /\ UNCHANGED history
           ELSE /\ history' = SubSeq(history, p + 1, Len(history))
                /\ cmds' = Ran("reset", TRUE)
                /\ pc' = "commit"
                /\ UNCHANGED <<success, out>>
    /\ UNCHANGED <<isRepo, index, work, untracked, stash, envVars, passed,
                   customMessage, wipCommits, synthVars, hasChanges, exitCode>>

\* Lines 498-500: commit -m "<message>"; with nothing staged git refuses.
mergeCommit ==
    /\ pc = "commit"
    /\ LET cm == CommittedMessage(commitMessage)
       IN  IF fault = "commit" \/ ~cm.ok \/ index = HeadTree(history)
           THEN /\ MergeFailed("commit")
                /\ UNCHANGED history
           ELSE /\ history' = <<[id |-> NewId, msg |-> cm.msg, tree |-> index]>>
                              \o history
                /\ cmds' = Ran("commit", TRUE)
                /\ pc' = "pop"
                /\ UNCHANGED <<success, out>>
    /\ UNCHANGED <<isRepo, index, work, untracked, stash, envVars, passed,
                   customMessage, wipCommits, synthVars, hasChanges, exitCode>>

\* Lines 503-512: stash pop when hasChanges; its failure is a warning only.
\* An entry made on another tree may or may not apply cleanly.
mergePop ==
    /\ pc = "pop"
    /\ success' = TRUE
    /\ pc' = "finish"
    /\ IF ~hasChanges
       THEN UNCHANGED <<index, work, stash, cmds, out>>
       ELSE \E conflict \in BOOLEAN :
            IF \/ fault = "pop"
               \/ stash = <<>>
               \/ (conflict /\ stash[1].base # HeadTree(history))
            THEN /\ cmds' = Ran("stash pop", FALSE)
                 /\ out' = out \cup Logged(cfg, "warn", "warnPop")
                 /\ work' = (IF fault # "pop" /\ stash # <<>>
                             THEN WithChanges(work, {"conflict"}) ELSE work)
                 /\ UNCHANGED <<index, stash>>
            ELSE /\ cmds' = Ran("stash pop", TRUE)
                 /\ work' = PoppedWork(history, work, stash[1])
                 /\ index' = PoppedIndex(history, index, stash[1])
                 /\ stash' = Tail(stash)
                 /\ UNCHANGED out
    /\ UNCHANGED <<isRepo, history, untracked, envVars, passed, customMessage,
                   wipCommits, synthVars, hasChanges, exitCode>>

\* A faulty variant of the exit code: a failed merge exits 0 as well.
ExitCodeAlwaysZero(ok) == 0

\* main, lines 600-608: the exit code.
ExitCodeOf(ok) == IF ok THEN 0 ELSE 1

finish ==
    /\ pc = "finish"
    /\ exitCode' = ExitCodeOf(success)
    /\ out' = out \cup (IF success THEN {"merged"} ELSE {"mergeFailed"})
    /\ pc' = "done"
    /\ UNCHANGED <<repoVars, envVars, passed, customMessage, wipCommits,
                   synthVars, mergeVars>>

\* The user runs the same command again right after a successful
\* consolidation: a new process, on the repository the first one left.
runAgain ==
    /\ pc = "done"
    /\ success
    /\ run < MaxRuns
    /\ run' = run + 1
    /\ pre' = Snapshot(isRepo, history, index, work, untracked, stash)
    /\ pc' = "start"
    /\ passed' = Undefined
    /\ customMessage' = <<>>
    /\ wipCommits' = <<>>
    /\ commitMessage' = <<>>
    /\ msgSource' = "none"
    /\ attempt' = 0
    /\ calls' = 0
    /\ backoffs' = <<>>
    /\ hasChanges' = FALSE
    /\ success' = FALSE
    /\ cmds' = <<>>
    /\ out' = {}
    /\ exitCode' = -1
    /\ late' = NoLate
    /\ UNCHANGED <<repoVars, argv, via, cfg, fault, autoVars>>

Next ==
    \/ ccGitHookMain
    \/ runDirect
    \/ mainStart
    \/ askRefused
    \/ askAccepted
    \/ scan
    \/ chooseMessage
    \/ queryReplied
    \/ queryFailed
    \/ lateReply
    \/ mergeStash
    \/ mergeReset
    \/ mergeCommit
    \/ mergePop
    \/ finish
    \/ runAgain

Spec == Init /\ [][Next]_vars

(***************************************************************************)
(* The auto-commit hook: text operations of generateCommitMessage.         *)
(***************************************************************************)
MarkerLen == 10
autoMaxRetries == 3
PromptMax == 50

AutoSave == "<auto save, time stamp>"
CutMarker == "[AUTO-W"

\* message.length, in characters.
Length(m) == Len(m) + (MarkerLen - 1) * Cardinality({i \in 1..Len(m) : m[i] = Marker})

\* message.substring(0, n); a cut inside the marker leaves a piece of it.
Substring(m, n) ==
    LET fits == {k \in 0..Len(m) : Length(SubSeq(m, 1, k)) <= n}
        k == CHOOSE x \in fits : \A y \in fits : y <= x
    IN  IF n <= 0 THEN <<>>
        ELSE IF k < Len(m) /\ Length(SubSeq(m, 1, k)) < n
        THEN SubSeq(m, 1, k) \o <<CutMarker>>
        ELSE SubSeq(m, 1, k)

\* message.startsWith(prefix)
StartsWith(m, p) == Len(m) >= Len(p) /\ SubSeq(m, 1, Len(p)) = p

FirstLine(m) == SplitLines(m, <<>>)[1]

Ellipsis == <<".", ".", ".">>

\* appConfig.autoCommit.prefix || '[AUTO-WIP]'
Prefix(conf) ==
    IF conf.autoCommit.prefix # <<>> THEN conf.autoCommit.prefix ELSE <<Marker>>

\* appConfig.autoCommit.maxMessageLength || 100
MaxLength(conf) ==
    IF conf.autoCommit.maxMessageLength # 0 THEN conf.autoCommit.maxMessageLength
    ELSE DefaultMaxLength

\* Lines 94-108: the reply trimmed, prefixed, cut to its first line and to
\* the maximal length.
ReplyMessage(conf, r) ==
    LET t == Trim(r)
        prefixed == IF StartsWith(t, Prefix(conf)) THEN t
                    ELSE Prefix(conf) \o <<" ">> \o t
        line == Trim(FirstLine(prefixed))
    IN  IF Length(line) > MaxLength(conf)
        THEN Substring(line, MaxLength(conf) - 3) \o Ellipsis
        ELSE line

\* Lines 121-135: the message when the last attempt has thrown.
FallbackMessage(conf, input) ==
    IF input.prompt # <<>>
    THEN Prefix(conf) \o <<" ">> \o
         (IF Length(input.prompt) > PromptMax
          THEN Substring(input.prompt, PromptMax) \o Ellipsis
          ELSE input.prompt)
    ELSE Prefix(conf) \o <<" ", AutoSave>>

\* What the collaborator may answer to the hook's prompt.
AutoReplies ==
    { <<"s">>,
      <<Marker, " ", "s">>,
      <<" ", "s", "\n", "t">>,
      <<"c", "d", "e", "f", "g", "h", "i", "j", "k", "l", "m", "n", "o">>,
      CustomPrefix \o <<" ", "s">>,
      <<>> }

(***************************************************************************)
(* The auto-commit hook: main and processHookInput.                        *)
(***************************************************************************)
\* What the hook never changes.
autoFixed ==
    <<stash, argv, via, cfg, fault, pre, run, projectFile, userFile, envv, tty,
      stdin, late, probe, answer, hook, passed, customMessage, wipCommits,
      hasChanges, success>>

AutoExit(code) == exitCode' = code /\ pc' = "done"

\* A faulty variant of the exit: a failing git command always exits 1.
SafeModeIgnored(conf) == 1

\* if (!appConfig.git.safeMode) process.exit(1); otherwise exit 0.
SafeModeExit(conf) == IF conf.git.safeMode THEN 0 ELSE 1

\* The standard input carries data: NoInput stands for an empty stream.
HasData == stdin # NoInput

\* JSON.parse(data) in the 'end' handler; text that is not JSON gives {}.
ParsedInput == IF stdin.valid THEN stdin ELSE NoInput

\* A call of processHookInput(input), lines 213-299.  The first call starts
\* the run the model follows.  A later call comes while the first one awaits
\* generateCommitMessage: it runs its own synchronous part on the same
\* repository (the changes are still uncommitted, so it stages again) and
\* awaits its own message; the call that gets its message first commits and
\* exits the process, so the run goes on with either call's input.
Invoke(h, input) ==
    /\ hook' = [h EXCEPT !.started = @ + 1]
    /\ IF h.started = 0
       THEN /\ hookInput' = input
            /\ pc' = "process"
            /\ UNCHANGED cmds
       ELSE /\ hookInput' \in {hookInput, input}
            /\ cmds' = (IF appConfig.git.autoStage THEN Ran("add", TRUE) ELSE cmds)
            /\ UNCHANGED pc

\* Line 195: if (data.length === 0)
TimerCalls(h) == ~h.data

hookFixed ==
    <<isRepo, history, index, work, untracked, stash, argv, via, cfg, fault,
      pre, run, projectFile, userFile, envv, tty, stdin, late, probe, answer,
      passed, customMessage, wipCommits, hasChanges, success, appConfig,
      synthVars, out, exitCode>>

\* main, lines 147-207: on a terminal processHookInput({}) is called at once;
\* otherwise the handlers of stdin are registered and the 100 ms timer is set.
autoCommitMain ==
    /\ pc = "auto"
    /\ IF tty
       THEN Invoke(hook, NoInput)
       ELSE /\ hook' = [hook EXCEPT !.timer = "set"]
            /\ pc' = "wait"
            /\ UNCHANGED <<hookInput, cmds>>
    /\ UNCHANGED hookFixed

\* The event loop runs a callback while main has returned and no call of
\* processHookInput is in its synchronous part.
CallbackMayRun == pc \in {"wait", "generate"} /\ ~tty

\* stdin.on('data'), lines 166-168.
stdinData ==
    /\ CallbackMayRun
    /\ HasData /\ ~hook.data /\ hook.stream = "open"
    /\ hook' = [hook EXCEPT !.data = TRUE]
    /\ UNCHANGED <<hookFixed, hookInput, cmds, pc>>

\* stdin.on('end'), lines 170-184: the stream has delivered what it carries.
stdinEnd ==
    /\ CallbackMayRun
    /\ hook.stream = "open" /\ (HasData => hook.data)
    /\ Invoke([hook EXCEPT !.stream = "ended"],
              IF hook.data THEN ParsedInput ELSE NoInput)
    /\ UNCHANGED hookFixed

\* stdin.on('error'), lines 186-191.
stdinError ==
    /\ CallbackMayRun
    /\ hook.stream = "open"
    /\ Invoke([hook EXCEPT !.stream = "errored"], NoInput)
    /\ UNCHANGED hookFixed

\* The timer's callback, lines 194-198.
timerFired ==
    /\ CallbackMayRun
    /\ hook.timer = "set"
    /\ IF TimerCalls(hook)
       THEN Invoke([hook EXCEPT !.timer = "fired"], NoInput)
       ELSE /\ hook' = [hook EXCEPT !.timer = "fired"]
            /\ UNCHANGED <<hookInput, cmds, pc>>
    /\ UNCHANGED hookFixed

\* A faulty variant of the test: the setting is not looked at.
autoCommitAlwaysEnabled(conf) == TRUE

\* Line 220: appConfig.autoCommit.enabled
autoCommitEnabled(conf) == conf.autoCommit.enabled

\* Lines 215-253: the configuration, the enabled test, the repository test.
processHookInput ==
    /\ pc = "process"
    /\ appConfig' = loadConfig(projectFile, userFile, envv)
    /\ IF ~autoCommitEnabled(loadConfig(projectFile, userFile, envv))
       THEN AutoExit(0)
       ELSE IF ~isRepo
       THEN IF tty THEN pc' = "init" /\ UNCHANGED exitCode
            ELSE AutoExit(0)
       ELSE pc' = "status" /\ UNCHANGED exitCode
    /\ UNCHANGED <<isRepo, history, index, work, untracked, autoFixed, hookInput,
                   synthVars, cmds, out>>

\* Lines 241-245: the user declines the initialisation.
initRefused ==
    /\ pc = "init"
    /\ out' = out \cup {"notInitialised"}
    /\ AutoExit(0)
    /\ UNCHANGED <<isRepo, history, index, work, untracked, autoFixed, appConfig,
                   hookInput, synthVars, cmds>>

\* Lines 233-240: the user accepts; gitUtils.initGitRepository() returns true
\* or false, or the call throws and the outer catch exits 0.
initAccepted ==
    /\ pc = "init"
    /\ \E result \in {"ok", "failed", "threw"} :
        IF result = "ok"
        THEN /\ isRepo' = TRUE
             /\ out' = out \cup {"initialised"}
             /\ pc' = "status"
             /\ UNCHANGED exitCode
        ELSE /\ out' = out \cup (IF result = "failed" THEN {"initFailed"}
                                 ELSE Logged(cfg, "error", "errorCaught"))
             /\ AutoExit(IF result = "failed" THEN 1 ELSE 0)
             /\ UNCHANGED isRepo
    /\ UNCHANGED <<history, index, work, untracked, autoFixed, appConfig,
                   hookInput, synthVars, cmds>>

\* Lines 257-264: getGitStatus(); a failing status command reads as no changes.
checkStatus ==
    /\ pc = "status"
    /\ IF fault = "status" \/ ~getGitStatus(history, index, work, untracked)
       THEN AutoExit(0)
       ELSE pc' = "stage" /\ UNCHANGED exitCode
    /\ UNCHANGED <<isRepo, history, index, work, untracked, autoFixed, appConfig,
                   hookInput, synthVars, cmds, out>>

\* Lines 269-283: git add -A when git.autoStage is set.
stageChanges ==
    /\ pc = "stage"
    /\ IF ~appConfig.git.autoStage
       THEN /\ pc' = "changes"
            /\ UNCHANGED <<index, work, untracked, cmds, out, exitCode>>
       ELSE IF fault = "add"
       THEN /\ cmds' = Ran("add", FALSE)
            /\ out' = out \cup Logged(cfg, "warn", "warnStage")
            /\ AutoExit(SafeModeExit(appConfig))
            /\ UNCHANGED <<index, work, untracked>>
       ELSE /\ cmds' = Ran("add", TRUE)
            /\ work' = WithChanges(work, IF untracked THEN {"addU"} ELSE {})
            /\ index' = WithChanges(work, IF untracked THEN {"addU"} ELSE {})
            /\ untracked' = FALSE
            /\ pc' = "changes"
            /\ UNCHANGED <<out, exitCode>>
    /\ UNCHANGED <<isRepo, history, autoFixed, appConfig, hookInput, synthVars>>

\* Lines 287-299: getGitChanges(), the summary when it throws, and the call
\* of generateCommitMessage.
collectChanges ==
    /\ pc = "changes"
    /\ out' = out \cup (IF fault = "changes"
                        THEN Logged(cfg, "warn", "warnChanges") ELSE {})
    /\ attempt' = 1
    /\ pc' = "generate"
    /\ UNCHANGED <<isRepo, history, index, work, untracked, autoFixed, appConfig,
                   hookInput, commitMessage, msgSource, calls, backoffs, cmds,
                   exitCode>>

\* generateCommitMessage, lines 86-112: an attempt whose query resolves.
generateReplied ==
    /\ pc = "generate"
    /\ \E r \in AutoReplies :
        commitMessage' = ReplyMessage(appConfig, r)
    /\ msgSource' = "collaborator"
    /\ calls' = calls + 1
    /\ pc' = "create"
    /\ UNCHANGED <<isRepo, history, index, work, untracked, autoFixed, appConfig,
                   hookInput, attempt, backoffs, cmds, out, exitCode>>

\* generateCommitMessage, lines 113-140: an attempt that throws.
generateFailed ==
    /\ pc = "generate"
    /\ calls' = calls + 1
    /\ IF attempt = autoMaxRetries
       THEN /\ commitMessage' = FallbackMessage(appConfig, hookInput)
            /\ msgSource' = "fallback"
            /\ pc' = "create"
            /\ UNCHANGED <<attempt, backoffs>>
       ELSE /\ backoffs' = Append(backoffs, attempt)
            /\ attempt' = attempt + 1
            /\ UNCHANGED <<commitMessage, msgSource, pc>>
    /\ UNCHANGED <<isRepo, history, index, work, untracked, autoFixed, appConfig,
                   hookInput, cmds, out, exitCode>>

\* Lines 302-319: git commit -m "<message>", then exit.
createCommit ==
    /\ pc = "create"
    /\ LET cm == CommittedMessage(commitMessage)
       IN  IF fault = "commit" \/ ~cm.ok \/ index = HeadTree(history)
           THEN /\ cmds' = Ran("commit", FALSE)
                /\ out' = out \cup Logged(cfg, "warn", "warnCommit")
                /\ AutoExit(SafeModeExit(appConfig))
                /\ UNCHANGED history
           ELSE /\ history' = <<[id |-> NewId, msg |-> cm.msg, tree |-> index]>>
                              \o history
                /\ cmds' = Ran("commit", TRUE)
                /\ AutoExit(0)
                /\ UNCHANGED out
    /\ UNCHANGED <<isRepo, index, work, untracked, autoFixed, appConfig,
                   hookInput, synthVars>>

AutoFaults == {"none", "status", "add", "changes", "commit"}

\* The repositories the hook is run in.
AutoRepos ==
    {[repo |-> FALSE, kinds |-> <<>>, ws |-> w] :
        w \in {CleanWork, [CleanWork EXCEPT !.untracked = TRUE]}}
    \cup {[repo |-> TRUE, kinds |-> <<>>, ws |-> w] :
        w \in {CleanWork, [CleanWork EXCEPT !.untracked = TRUE]}}
    \cup {[repo |-> TRUE, kinds |-> k, ws |-> w] :
        k \in {<<"real">>, <<"wip", "real">>}, w \in WorkStates}

\* Either the configuration is varied, in hook mode with no failing command,
\* or the repository, the terminal, the input and the failing command are.
AutoChoices ==
    {[project |-> p, user |-> u, env |-> e, tty |-> FALSE, stdin |-> i,
      fault |-> "none", repo |-> r] :
        p \in ConfigFiles, u \in ConfigFiles, e \in EnvSettings,
        i \in {NoInput, [valid |-> TRUE, prompt |-> ShortPrompt]},
        r \in {x \in AutoRepos : x.kinds = <<"wip", "real">>
                                  /\ x.ws.work \in {{}, {"modG"}}}}
    \cup
    {[project |-> p, user |-> AbsentFile, env |-> "none", tty |-> t,
      stdin |-> i, fault |-> f, repo |-> r] :
        p \in {c \in ConfigFiles : c.has # {"autoCommit"}},
        t \in BOOLEAN, i \in Stdins, f \in AutoFaults, r \in AutoRepos}

InitAuto ==
    /\ run = 1
    /\ late = NoLate
    /\ pc = "auto"
    /\ passed = Undefined
    /\ customMessage = <<>>
    /\ wipCommits = <<>>
    /\ commitMessage = <<>>
    /\ msgSource = "none"
    /\ attempt = 0
    /\ calls = 0
    /\ backoffs = <<>>
    /\ hasChanges = FALSE
    /\ success = FALSE
    /\ cmds = <<>>
    /\ out = {}
    /\ exitCode = -1
    /\ argv = <<>>
    /\ via = "direct"
    /\ cfg = defaultConfig
    /\ appConfig = DefaultSections
    /\ hookInput = NoInput
    /\ probe = NoProbe
    /\ answer = NoAnswer
    /\ hook = NoHook
    /\ \E c \in AutoChoices :
        LET h == MakeHistory(c.repo.kinds, DefaultWipMsg)
            idx == WithChanges(HeadTree(h), c.repo.ws.index)
            wk == WithChanges(HeadTree(h), c.repo.ws.work)
        IN  /\ isRepo = c.repo.repo
            /\ history = h
            /\ index = idx
            /\ work = wk
            /\ untracked = c.repo.ws.untracked
            /\ stash = <<>>
            /\ pre = Snapshot(c.repo.repo, h, idx, wk, c.repo.ws.untracked, <<>>)
            /\ projectFile = c.project
            /\ userFile = c.user
            /\ envv = c.env
            /\ tty = c.tty
            /\ stdin = c.stdin
            /\ fault = c.fault

NextAuto ==
    \/ autoCommitMain
    \/ stdinData
    \/ stdinEnd
    \/ stdinError
    \/ timerFired
    \/ processHookInput
    \/ initRefused
    \/ initAccepted
    \/ checkStatus
    \/ stageChanges
    \/ collectChanges
    \/ generateReplied
    \/ generateFailed
    \/ createCommit

AutoSpec == InitAuto /\ [][NextAuto]_vars

(***************************************************************************)
(* git-utils: the read operations, each called on its own against what git *)
(* answers.                                                                *)
(***************************************************************************)
MaxStatusLines == 2

\* The XY codes of the entries `git status --porcelain` prints.
PorcelainEntries ==
    { <<" ", "M">>, <<"M", " ">>, <<"A", " ">>, <<"D", " ">>, <<" ", "D">>,
      <<"R", " ">>, <<"C", " ">>, <<"?", "?">> }

StatusOutputs == UNION {[1..n -> PorcelainEntries] : n \in 0..MaxStatusLines}

\* The text git prints: one line "XY path" per entry, each ended by a newline.
StatusText(entries) ==
    IF entries = <<>> THEN <<>>
    ELSE JoinLines([i \in 1..Len(entries) |->
                        <<entries[i][1], entries[i][2], " ", "f">>]) \o <<"\n">>

GitCommands == {"status", "log", "diff"}

\* What git answers: rev-parse succeeds or not, the commands that fail, the
\* entries of the status output, the branch, the files `diff --name-only` lists.
GitAnswers ==
    {[fn |-> "none", rev |-> r, fails |-> f, status |-> st, log |-> l,
      files |-> fl] :
        r \in BOOLEAN, f \in SUBSET GitCommands, st \in StatusOutputs,
        l \in {<<>>, MakeHistory(<<"wip", "real">>, DefaultWipMsg)},
        fl \in {<<>>, <<"f">>}}

\* Outside a repository every git command fails.
Probes == {e \in GitAnswers : ~e.rev => e.fails = GitCommands}

Threw == [threw |-> TRUE, value |-> <<>>]
Returned(v) == [threw |-> FALSE, value |-> v]

\* execGitCommand, lines 30-49: the output trimmed, or the error thrown again.
execGitCommand(e, cmd, output) ==
    IF cmd \in e.fails THEN Threw ELSE Returned(Trim(output))

\* A faulty variant of try/catch: the error goes on to the caller.
NotCaught(r, neutral) == r

\* try { ... } catch (error) { return neutral; }
Caught(r, neutral) == IF r.threw THEN Returned(neutral) ELSE r

\* isGitRepository, lines 15-22.
isGitRepository(e) == Caught(IF e.rev THEN Returned(TRUE) ELSE Threw, FALSE)

\* /^[AMDR]/.test(status): the pattern has no m flag, ^ is the start of the text.
hasStaged(status) == status # <<>> /\ status[1] \in {"A", "M", "D", "R"}

GitStatus(changes, staged, status) ==
    [hasChanges |-> changes, hasStaged |-> staged, status |-> status]

\* getGitStatus, lines 55-73.
getGitStatusOf(e) ==
    IF ~isGitRepository(e).value
    THEN Returned(GitStatus(FALSE, FALSE, <<"not_a_repo">>))
    ELSE LET r == execGitCommand(e, "status", StatusText(e.status))
         IN  Caught(IF r.threw THEN r
                    ELSE Returned(GitStatus(r.value # <<>>, hasStaged(r.value),
                                            IF r.value # <<>> THEN r.value
                                            ELSE <<"clean">>)),
                    GitStatus(FALSE, FALSE, <<"error">>))

\* getRecentCommits, lines 194-218.
getRecentCommitsOf(e, count) ==
    LET r == execGitCommand(e, "log", <<>>)
    IN  Caught(IF r.threw THEN r ELSE Returned(getRecentCommits(e.log, count)),
               <<>>)

\* getChangedFiles, lines 118-125.
getChangedFiles(e) ==
    LET r == execGitCommand(e, "diff", <<>>)
    IN  Caught(IF r.threw THEN r ELSE Returned(e.files), <<>>)

\* Lines 145-173: the entries counted by kind, the kinds that occur listed.
SummaryText(status) ==
    LET lines == SelectSeq(SplitLines(status, <<>>), LAMBDA l : ~IsBlank(l))
        kind(l) == IF l[1] = "A" \/ l[2] = "A" THEN "added"
                   ELSE IF l[1] = "D" \/ l[2] = "D" THEN "deleted"
                   ELSE "modified"
        count(k) == Cardinality({i \in 1..Len(lines) : kind(lines[i]) = k})
    IN  SelectSeq(<< <<"added", count("added")>>,
                     <<"modified", count("modified")>>,
                     <<"deleted", count("deleted")>> >>,
                  LAMBDA part : part[2] > 0)

\* getChangedFilesSummary, lines 131-186: when the status command fails the
\* catch block counts the files getChangedFiles lists.
getChangedFilesSummary(e) ==
    LET r == execGitCommand(e, "status", StatusText(e.status))
        files == getChangedFiles(e)
    IN  IF ~r.threw
        THEN Returned(IF r.value = <<>> THEN <<>> ELSE SummaryText(r.value))
        ELSE Caught(IF files.threw THEN files
                    ELSE Returned(IF Len(files.value) > 0
                                  THEN << <<"changed", Len(files.value)>> >>
                                  ELSE <<>>),
                    <<>>)

Inspected(fn, r) ==
    /\ pc = "inspect"
    /\ probe' = [probe EXCEPT !.fn = fn]
    /\ answer' = [threw |-> r.threw, fn |-> fn, value |-> r.value]
    /\ pc' = "inspected"
    /\ UNCHANGED <<repoVars, argv, via, cfg, fault, pre, run, projectFile,
                   userFile, envv, appConfig, tty, stdin, hookInput, late, hook,
                   passed, customMessage, wipCommits, synthVars, mergeVars,
                   out, exitCode>>

callIsGitRepository == Inspected("isGitRepository", isGitRepository(probe))

callGetGitStatus == Inspected("getGitStatus", getGitStatusOf(probe))

callGetRecentCommits ==
    Inspected("getRecentCommits", getRecentCommitsOf(probe, 10))

callGetChangedFilesSummary ==
    Inspected("getChangedFilesSummary", getChangedFilesSummary(probe))

InitInspect ==
    /\ run = 1
    /\ late = NoLate
    /\ pc = "inspect"
    /\ passed = Undefined
    /\ customMessage = <<>>
    /\ wipCommits = <<>>
    /\ commitMessage = <<>>
    /\ msgSource = "none"
    /\ attempt = 0
    /\ calls = 0
    /\ backoffs = <<>>
    /\ hasChanges = FALSE
    /\ success = FALSE
    /\ cmds = <<>>
    /\ out = {}
    /\ exitCode = -1
    /\ isRepo = FALSE
    /\ history = <<>>
    /\ index = EmptyTree
    /\ work = EmptyTree
    /\ untracked = FALSE
    /\ stash = <<>>
    /\ pre = Snapshot(FALSE, <<>>, EmptyTree, EmptyTree, FALSE, <<>>)
    /\ argv = <<>>
    /\ via = "direct"
    /\ cfg = defaultConfig
    /\ fault = "none"
    /\ projectFile = AbsentFile
    /\ userFile = AbsentFile
    /\ envv = "none"
    /\ appConfig = DefaultSections
    /\ tty = TRUE
    /\ stdin = NoInput
    /\ hookInput = NoInput
    /\ probe \in Probes
    /\ answer = NoAnswer
    /\ hook = NoHook

NextInspect ==
    \/ callIsGitRepository
    \/ callGetGitStatus
    \/ callGetRecentCommits
    \/ callGetChangedFilesSummary

InspectSpec == InitInspect /\ [][NextInspect]_vars

(***************************************************************************)
(* The config command: `config set <key> <value>` and `config get <key>`.  *)
(* A value is [kind, text]: a JSON boolean, number or string and the text  *)
(* formatValue prints for it; the words true and false are single elements.*)
(***************************************************************************)
ConfigKeys ==
    { <<"autoCommit", "enabled">>, <<"autoCommit", "maxMessageLength">>,
      <<"git", "safeMode">> }

\* Of setConfigValue's booleanKeys, those of the sections modelled.
booleanKeys ==
    { <<"autoCommit", "enabled">>, <<"git", "autoStage">>, <<"git", "safeMode">> }

\* The values typed on the command line.
CliValues == { <<"true">>, <<"false">>, <<"1">>, <<"0">>, <<"1", "6">> }

Null == [kind |-> "null", text |-> <<>>]
BoolValue(b) == [kind |-> "bool", text |-> IF b THEN <<"true">> ELSE <<"false">>]

\* String(n) for a number.
RECURSIVE Digits(_)
Digits(n) ==
    LET d == <<"0", "1", "2", "3", "4", "5", "6", "7", "8", "9">>
    IN  IF n < 10 THEN <<d[n + 1]>> ELSE Digits(n \div 10) \o <<d[(n % 10) + 1]>>

\* setConfig, lines 342-349: 'true' and '1' become true, 'false' and '0'
\* false, any other text stays a string.
FinalValue(value) ==
    IF value \in {<<"true">>, <<"1">>} THEN BoolValue(TRUE)
    ELSE IF value \in {<<"false">>, <<"0">>} THEN BoolValue(FALSE)
    ELSE [kind |-> "str", text |-> value]

\* setConfigValue, lines 127-133: a boolean key takes true, false, 1 or 0.
ValidValue(key, value) ==
    key \in booleanKeys =>
        value \in {<<"true">>, <<"false">>, <<"1">>, <<"0">>}

\* current[lastKey] = finalValue, line 351.
StoreSetting(sec, setting, v) ==
    IF setting \in {"enabled", "autoStage", "safeMode"} /\ v.kind = "bool"
    THEN [sec EXCEPT !.has = @ \cup {setting},
                     ![setting] = (v.text = <<"true">>),
                     !.foreign = {f \in @ : f.k # setting}]
    ELSE [sec EXCEPT !.has = @ \cup {setting},
                     !.foreign = {f \in @ : f.k # setting}
                                 \cup {[k |-> setting, kind |-> v.kind,
                                        text |-> v.text]}]

\* setConfig, lines 304-354: the defaults, the target file's sections over
\* them, the setting stored, and the whole written to the project-level file.
setConfig(project, key, value) ==
    LET config == MergeFile(DefaultSections, project)
        stored == [config EXCEPT
                      ![key[1]] = StoreSetting(@, key[2], FinalValue(value))]
    IN  [state |-> "ok", has |-> {"autoCommit", "git"},
         autoCommit |-> stored.autoCommit, git |-> stored.git]

\* The value a section holds for a setting.
ReadSetting(sec, setting) ==
    IF setting \notin sec.has THEN Null
    ELSE IF \E f \in sec.foreign : f.k = setting
    THEN LET f == CHOOSE g \in sec.foreign : g.k = setting
         IN  [kind |-> f.kind, text |-> f.text]
    ELSE IF setting = "maxMessageLength"
    THEN [kind |-> "num", text |-> Digits(sec.maxMessageLength)]
    ELSE BoolValue(sec[setting])

\* getConfig, lines 266-280: loadConfig(), then the key's path is followed.
getConfig(project, user, env, key) ==
    ReadSetting(loadConfig(project, user, env)[key[1]], key[2])

\* formatValue, lines 25-33.
formatValue(v) == v.text

configFixed ==
    <<repoVars, argv, via, cfg, fault, pre, run, userFile, envv, appConfig,
      tty, stdin, hookInput, late, hook, passed, customMessage, wipCommits,
      synthVars, mergeVars>>

\* `config set <key> <value>`, setConfigValue, lines 89-146; saveConfig
\* returns false when the file cannot be written.
setConfigValue ==
    /\ pc = "config"
    /\ \E key \in ConfigKeys, value \in CliValues, saved \in BOOLEAN :
        LET ok == ValidValue(key, value) /\ saved
        IN  /\ probe' = [fn |-> "set", key |-> key, value |-> value, ok |-> ok,
                         before |-> [k \in ConfigKeys |->
                                        getConfig(projectFile, userFile, envv, k)]]
            /\ projectFile' = (IF ok THEN setConfig(projectFile, key, value)
                               ELSE projectFile)
            /\ out' = out \cup (IF ok THEN {"configUpdated"} ELSE {"configError"})
            /\ IF ok THEN pc' = "configSet" /\ UNCHANGED exitCode
               ELSE AutoExit(1)
    /\ UNCHANGED <<configFixed, answer>>

\* `config get <key>` in the same directory, getConfigValue, lines 61-82.
getConfigValue ==
    /\ pc = "configSet"
    /\ \E key \in ConfigKeys :
        LET v == getConfig(projectFile, userFile, envv, key)
        IN  /\ answer' = [threw |-> FALSE, fn |-> "get", key |-> key, value |-> v]
            /\ out' = out \cup (IF v = Null THEN {"noSuchKey"} ELSE {"printed"})
            /\ AutoExit(IF v = Null THEN 1 ELSE 0)
    /\ UNCHANGED <<configFixed, projectFile, probe>>

InitConfig ==
    /\ run = 1
    /\ late = NoLate
    /\ pc = "config"
    /\ passed = Undefined
    /\ customMessage = <<>>
    /\ wipCommits = <<>>
    /\ commitMessage = <<>>
    /\ msgSource = "none"
    /\ attempt = 0
    /\ calls = 0
    /\ backoffs = <<>>
    /\ hasChanges = FALSE
    /\ success = FALSE
    /\ cmds = <<>>
    /\ out = {}
    /\ exitCode = -1
    /\ isRepo = FALSE
    /\ history = <<>>
    /\ index = EmptyTree
    /\ work = EmptyTree
    /\ untracked = FALSE
    /\ stash = <<>>
    /\ pre = Snapshot(FALSE, <<>>, EmptyTree, EmptyTree, FALSE, <<>>)
    /\ argv = <<>>
    /\ via = "dispatcher"
    /\ cfg = defaultConfig
    /\ fault = "none"
    /\ projectFile \in ConfigFiles
    /\ userFile \in ConfigFiles
    /\ envv = "none"
    /\ appConfig = DefaultSections
    /\ tty = TRUE
    /\ stdin = NoInput
    /\ hookInput = NoInput
    /\ probe = NoProbe
    /\ answer = NoAnswer
    /\ hook = NoHook

NextConfig ==
    \/ setConfigValue
    \/ getConfigValue

ConfigSpec == InitConfig /\ [][NextConfig]_vars

(***************************************************************************)
(* Vocabulary of the claims.                                               *)
(***************************************************************************)
Done == pc = "done"

\* N: the number of WIP commits the history ended in when the command started.
PreN ==
    LET h == pre.history
        nonWip == {i \in 1..Len(h) : ~StartsWithMarker(h[i].msg)}
    IN  IF nonWip = {} THEN Len(h) ELSE Min(nonWip) - 1

RanOk(c) == \E i \in 1..Len(cmds) : cmds[i].cmd = c /\ cmds[i].ok
RanFailed(c) == \E i \in 1..Len(cmds) : cmds[i].cmd = c /\ ~cmds[i].ok
Attempted(c) == \E i \in 1..Len(cmds) : cmds[i].cmd = c

\* The message the user gave on the command line, if any.
Override == Trim(Join(argv))

\* The commit this run created is the tip.
CommitCreated == RanOk("commit")

\* C1 (as stated): after a successful squash of a history that ended in N >= 2
\* WIP commits, one new commit stands where the run was, the commit count is
\* N - 1 lower, and the tip's message does not start with [AUTO-WIP].
C1_RunReplacedByOneCommit ==
    (Done /\ success /\ pre.isRepo /\ PreN >= 2) =>
        /\ Len(history) = Len(pre.history) - (PreN - 1)
        /\ history[1].id = NewId
        /\ Tail(history) = SubSeq(pre.history, PreN + 1, Len(pre.history))
        /\ ~StartsWithMarker(history[1].msg)

\* C2 (as stated): every run of performSimpleMerge that stashed the working
\* tree has attempted stash pop by the time it returns.
C2_StashAlwaysPopped ==
    (/\ pc \in {"finish", "done"}
     /\ RanOk("stash push")
     /\ StashSaves(pre.history, pre.index, pre.work)) => Attempted("stash pop")

\* C3 (as stated): uncommitted changes present when consolidation begins are
\* back, with the same staged/unstaged split, when it has completed, unless
\* the stash pop failed.
C3_WorkingTreeRestored ==
    (/\ Done
     /\ msgSource # "none"
     /\ StatusNonEmpty(pre.history, pre.index, pre.work, pre.untracked)
     /\ ~RanFailed("stash pop")) =>
        /\ work = pre.work
        /\ index = pre.index
        /\ untracked = pre.untracked

\* C4 (as stated): without a commit-message argument no literal override is
\* used, through the dispatcher as well as directly: one WIP commit gives its
\* de-prefixed message, two or more go to generateMergedCommitMessage's
\* collaborator-based synthesis.
C4_NoArgumentNoOverride ==
    (argv = <<>> /\ msgSource # "none") =>
        /\ msgSource # "override"
        /\ Len(wipCommits) = 1 =>
              msgSource = "single" /\ commitMessage = StripMarker(wipCommits[1].msg)
        /\ Len(wipCommits) >= 2 => msgSource \in {"collaborator", "fallback", "default"}

\* C5 (as stated): with an override that is not empty after trimming, the
\* commit created has exactly the override as its message, and the
\* collaborator is never called.
C5_OverrideVerbatim ==
    (Override # <<>> /\ msgSource # "none") =>
        /\ calls = 0
        /\ CommitCreated => history[1].msg = Override

\* C6 (as stated): with exactly one WIP commit atop the base and no override,
\* the commit produced carries that commit's message without the marker
\* prefix, and the collaborator is not called.
C6_SingleCommitDePrefixed ==
    (pre.isRepo /\ PreN = 1 /\ Override = <<>> /\ CommitCreated) =>
        /\ history[1].msg = StripMarker(pre.history[1].msg)
        /\ calls = 0

\* C7: in a repository with zero WIP commits atop HEAD squash-wip runs no
\* stash, reset or commit, leaves HEAD and the commit count alone, and exits 0.
C7_NoWipIsNoOp ==
    (pre.isRepo /\ PreN = 0) =>
        /\ cmds = <<>>
        /\ history = pre.history
        /\ <<index, work, untracked, stash>>
              = <<pre.index, pre.work, pre.untracked, pre.stash>>
        /\ exitCode \in {-1, 0}
        /\ Done => exitCode = 0

C7_Witness ==
    /\ Done
    /\ pre.isRepo
    /\ PreN = 0
    /\ \E i \in 1..Len(pre.history) : StartsWithMarker(pre.history[i].msg)
    /\ StatusNonEmpty(pre.history, pre.index, pre.work, pre.untracked)

Scanned == "preview" \in out \/ "noWipFound" \in out

\* C8: the exit code is 0 exactly when the consolidation succeeded (reset and
\* commit done) or the scan found no WIP commit; it is 1 when the stash, the
\* reset or the commit failed and when the user refused the initialisation.
C8_ExitCodes ==
    Done =>
        /\ exitCode \in {0, 1}
        /\ exitCode = 0 <=>
              \/ Scanned /\ wipCommits = <<>>
              \/ RanOk("reset") /\ RanOk("commit")
        /\ (RanFailed("stash push") \/ RanFailed("reset") \/ RanFailed("commit"))
              => exitCode = 1
        /\ "notInitialised" \in out => exitCode = 1

C8_Witness ==
    /\ Done
    /\ exitCode = 1
    /\ RanOk("stash push")
    /\ RanOk("reset")
    /\ RanFailed("commit")

\* C9 (as stated): when the stash pop fails after reset and commit succeeded,
\* performSimpleMerge returns true, a warning is emitted and the exit code is 0.
C9_PopFailureWarned ==
    (Done /\ RanFailed("stash pop")) =>
        /\ success
        /\ "warnPop" \in out
        /\ exitCode = 0

\* C10 (as stated): with squashWip.autoGenerateMessage false the collaborator
\* is not called, and with squashWip.showPreview false no preview is printed.
C10_ConfigGates ==
    /\ ~cfg.autoGenerateMessage => calls = 0
    /\ ~cfg.showPreview => "preview" \notin out

\* C11 (as stated): for a WIP run that is not empty and no override, whatever
\* the collaborator does on each attempt, the message the synthesizer hands
\* to the commit step is not empty.
C11_SynthesisNonEmpty ==
    msgSource \in {"single", "collaborator", "fallback", "default"} =>
        commitMessage # <<>>

\* C12 (as stated): run again right after a successful consolidation, the
\* command finds no WIP commit and changes nothing: no git command is run,
\* HEAD, the commit count and the working tree are as the first run left
\* them, and the exit code is 0.
C12_SecondRunNoOp ==
    run >= 2 =>
        /\ wipCommits = <<>>
        /\ cmds = <<>>
        /\ history = pre.history
        /\ <<index, work, untracked>> = <<pre.index, pre.work, pre.untracked>>
        /\ Done => exitCode = 0

\* The configuration has been loaded by this run of the hook.
Loaded == pc \notin {"auto", "process"}

\* C13 (as stated): in the loaded configuration a setting that both
\* .claude-git-hook.json files define has the project-level file's value
\* (no CLAUDE_GIT_HOOK_* variable being set).
C13_ProjectOverUser ==
    (/\ Loaded
     /\ envv = "none"
     /\ projectFile.state = "ok"
     /\ userFile.state = "ok") =>
        /\ \A k \in projectFile.autoCommit.has \cap userFile.autoCommit.has :
              appConfig.autoCommit[k] = projectFile.autoCommit[k]
        /\ \A k \in projectFile.git.has \cap userFile.git.has :
              appConfig.git[k] = projectFile.git[k]

\* `git status --porcelain` had something to report when the hook started.
HadChanges == StatusNonEmpty(pre.history, pre.index, pre.work, pre.untracked)

\* C14: auto-commit creates a commit only if autoCommit.enabled is true in
\* the loaded configuration and the working tree had uncommitted changes;
\* when it is disabled, or nothing was changed, HEAD is the same after the run.
C14_CommitOnlyIfEnabledAndChanged ==
    /\ history # pre.history =>
          Loaded /\ appConfig.autoCommit.enabled /\ HadChanges
    /\ (Done /\ (~appConfig.autoCommit.enabled \/ ~HadChanges)) =>
          history = pre.history

C14_Witness ==
    /\ Done
    /\ RanOk("commit")
    /\ Len(history) = Len(pre.history) + 1
    /\ projectFile.state = "ok"
    /\ appConfig.autoCommit.enabled
    /\ HadChanges

\* C15 (as stated): every message generateCommitMessage produces starts with
\* the configured prefix (autoCommit.prefix, default [AUTO-WIP]): collaborator
\* text with or without the prefix, text cut to maxMessageLength, and both
\* fallback forms.
C15_MessageStartsWithPrefix ==
    (pc \in {"create", "done"} /\ msgSource \in {"collaborator", "fallback"}) =>
        StartsWith(commitMessage, Prefix(appConfig))

\* C16: run as a hook (no terminal) with git.safeMode on in the loaded
\* configuration, auto-commit exits with code 0 on every path: disabled, not
\* a repository, no changes, git add failing, the message generation
\* failing, git commit failing.
C16_HookAlwaysExitsZero ==
    (Done /\ ~tty /\ appConfig.git.safeMode) => exitCode = 0

C16_Witness ==
    /\ Done
    /\ ~tty
    /\ appConfig.git.safeMode
    /\ msgSource = "fallback"
    /\ RanFailed("commit")
    /\ exitCode = 0

\* Positions in the branch, as it was when the command started, of the
\* commits of the scan's result.
RunPositions == {PositionOf(pre.history, wipCommits[i].id) : i \in 1..Len(wipCommits)}

\* C17 (as stated): the WIP run the scan computes consists of WIP commits
\* only, is contiguous from HEAD, and the parent of its oldest commit is the
\* base commit (a non-WIP commit), or the run reaches the root.
C17_RunContiguousAboveBase ==
    (pc \in {"message", "query", "merge"} /\ wipCommits # <<>>) =>
        /\ \A i \in 1..Len(wipCommits) : StartsWithMarker(wipCommits[i].msg)
        /\ RunPositions = 1..Len(wipCommits)
        /\ \/ Len(wipCommits) = Len(pre.history)
           \/ ~StartsWithMarker(pre.history[Len(wipCommits) + 1].msg)

\* C18 (as stated): when every commit back to the root is a WIP commit (the
\* run has no base) and no git command is made to fail, consolidation
\* succeeds and leaves a single commit carrying the message.
C18_RootRunConsolidated ==
    (/\ Done
     /\ pre.isRepo
     /\ PreN >= 1
     /\ PreN = Len(pre.history)
     /\ fault = "none"
     /\ CommittedMessage(commitMessage).ok) =>
        /\ success
        /\ exitCode = 0
        /\ Len(history) = 1
        /\ history[1].msg = CommittedMessage(commitMessage).msg

\* C19 (as stated): for a run of two or more commits and no override the
\* collaborator is called at most 3 times, and before attempt k + 1 the
\* synthesizer has waited k seconds after attempt k, whether attempt k threw,
\* timed out or returned empty text.
C19_AtMostThreeCallsWithBackoff ==
    pc \in {"query", "merge", "reset", "commit", "pop", "finish", "done"} =>
        /\ calls <= maxRetries
        /\ pc = "query" => Len(backoffs) = attempt - 1
        /\ calls >= 1 => Len(backoffs) >= calls - 1
        /\ \A i \in 1..Len(backoffs) : backoffs[i] = i

\* C20 (as stated): for a run of two or more commits, whenever the
\* synthesizer returns something other than the collaborator's text it
\* returns the fallback, the same function of the WIP run however the
\* attempts ended: the newest commit's message without the marker (cut
\* to 50 characters plus an ellipsis when longer) as the headline,
\* followed by the other commits' messages without the marker as a
\* bulleted block.
C20_FallbackWhateverTheAttempts ==
    LET wip == wipCommits
        first == StripMarker(wip[1].msg)
        headline == IF Len(first) > TitleMax
                    THEN SubSeq(first, 1, TitleMax) \o <<".", ".", ".">>
                    ELSE first
        block == Bullets([i \in 1..Len(wip) |-> StripMarker(wip[i].msg)],
                         2, Len(wip))
    IN  (Len(wip) >= 2 /\ msgSource \in {"fallback", "default"}) =>
            commitMessage = headline \o <<"\n", "\n">> \o DetailsHeader
                            \o <<"\n">> \o block

C22_HasStagedIffStagedLine ==
    (/\ pc = "inspected"
     /\ answer.fn = "getGitStatus"
     /\ probe.rev
     /\ "status" \notin probe.fails) =>
        (answer.value.hasStaged <=>
            \E i \in 1..Len(probe.status) : probe.status[i][1] \in {"A", "M", "D", "R", "C"})

\* The git command the inspector function called runs first has failed.
CommandFailed ==
    \/ answer.fn \in {"isGitRepository", "getGitStatus"} /\ ~probe.rev
    \/ answer.fn \in {"getGitStatus", "getChangedFilesSummary"}
          /\ "status" \in probe.fails
    \/ answer.fn = "getRecentCommits" /\ "log" \in probe.fails

\* C23 (as stated): isGitRepository, getGitStatus, getRecentCommits and
\* getChangedFilesSummary never throw, and when the git command fails each
\* returns its neutral value: false, a status without changes, the empty
\* list, the empty text.
C23_NeutralOnEveryFailure ==
    pc = "inspected" =>
        /\ ~answer.threw
        /\ CommandFailed =>
              /\ answer.fn = "isGitRepository" => answer.value = FALSE
              /\ answer.fn = "getGitStatus" =>
                    ~answer.value.hasChanges /\ ~answer.value.hasStaged
              /\ answer.fn = "getRecentCommits" => answer.value = <<>>
              /\ answer.fn = "getChangedFilesSummary" => answer.value = <<>>

\* C23 (amended): the four read operations never throw; when the git command
\* fails isGitRepository returns false, getGitStatus a status without
\* changes, getRecentCommits the empty list, and getChangedFilesSummary the
\* count of the files `git diff --name-only` lists when that command still
\* succeeds and lists some, the empty text otherwise.
C23_NeverThrowsDegrades ==
    pc = "inspected" =>
        /\ ~answer.threw
        /\ CommandFailed =>
              /\ answer.fn = "isGitRepository" => answer.value = FALSE
              /\ answer.fn = "getGitStatus" =>
                    ~answer.value.hasChanges /\ ~answer.value.hasStaged
              /\ answer.fn = "getRecentCommits" => answer.value = <<>>
              /\ answer.fn = "getChangedFilesSummary" =>
                    answer.value =
                        IF "diff" \notin probe.fails /\ probe.files # <<>>
                        THEN << <<"changed", Len(probe.files)>> >>
                        ELSE <<>>

C23_Witness ==
    /\ pc = "inspected"
    /\ answer.fn = "getChangedFilesSummary"
    /\ probe.rev
    /\ probe.fails = {"status", "diff"}
    /\ probe.status # <<>>
    /\ probe.files # <<>>
    /\ ~answer.threw
    /\ answer.value = <<>>

\* C24: in one invocation git reset and git commit are each run at most
\* once; after a failed reset no commit is attempted, and after a failed
\* reset or commit no further reset or commit is run.
C24_ResetAndCommitAtMostOnce ==
    /\ \A c \in {"reset", "commit"} :
          Cardinality({i \in 1..Len(cmds) : cmds[i].cmd = c}) <= 1
    /\ RanFailed("reset") => ~Attempted("commit")
    /\ \A i \in 1..Len(cmds) :
          (cmds[i].cmd \in {"reset", "commit"} /\ ~cmds[i].ok) =>
              \A j \in (i + 1)..Len(cmds) : cmds[j].cmd \notin {"reset", "commit"}

C24_Witness ==
    /\ Done
    /\ exitCode = 1
    /\ hasChanges
    /\ RanFailed("reset")
    /\ Len(pre.history) > PreN

\* C25 (as stated): in one run of the hook processHookInput is called at
\* most once, whatever the order of the stdin 'data', 'end' and 'error'
\* callbacks and the 100 ms timer, and git add is run at most once.
C25_ProcessHookInputAtMostOnce ==
    /\ hook.started <= 1
    /\ Cardinality({i \in 1..Len(cmds) : cmds[i].cmd = "add"}) <= 1

\* C26 (as stated): the entry that the stash pop at the end of
\* performSimpleMerge removes is the one this run pushed: when the pop has
\* succeeded the stash list is the list the user had before the run, also
\* when the push saved nothing (untracked files only).
C26_PopsOwnStashEntry ==
    (pc \in {"finish", "done"} /\ RanOk("stash pop")) => stash = pre.stash

\* C27 (as stated): consolidation never removes a commit that is not a WIP
\* commit: every commit of the branch whose message does not start with
\* [AUTO-WIP] when squash-wip starts is in the branch afterwards, however far
\* below HEAD the nearest such commit lies.
C27_NonWipCommitsKept ==
    \A i \in 1..Len(pre.history) :
        ~StartsWithMarker(pre.history[i].msg) =>
            \E j \in 1..Len(history) : history[j].id = pre.history[i].id

C29_WriterAndScannerAgree ==
    (Done /\ RanOk("commit")) =>
        /\ ScanWip(history) # <<>>
        /\ ScanWip(history)[1].id = history[1].id

\* C30 (as stated): after `config set <key> <value>` has reported success,
\* `config get <key>` in the same directory prints that value (for a boolean
\* key 1 and 0 read as true and false), for numeric values such as 0 and 1
\* too and whether or not a user-level file exists; and the value read for
\* every other key is the one read before the set.
C30_SetGetRoundTrip ==
    (Done /\ answer.fn = "get" /\ probe.fn = "set" /\ probe.ok) =>
        IF answer.key = probe.key
        THEN formatValue(answer.value) =
                 (IF probe.key \in booleanKeys THEN FinalValue(probe.value).text
                  ELSE probe.value)
        ELSE answer.value = probe.before[answer.key]

====
